---- MODULE Spec2Model ----
(***************************************************************************)
(* A model of BrcmFirmwareStore (BrcmPatchRAM/BrcmFirmwareStore.cpp):      *)
(* the IntelHex parser parseFirmware, byte by byte, and the firmware cache *)
(* getFirmware with its loader chain and the resource-request handoff.     *)
(*                                                                         *)
(* Bytes and characters are numbers 0..255 (ASCII), UInt8 arithmetic is    *)
(* modulo 2^8, and a UInt32 is the pair of its 16-bit halves [hi, lo].     *)
(***************************************************************************)
EXTENDS Integers, Sequences, FiniteSets, TLC

(***************************************************************************)
(* Bounds of the model.                                                    *)
(***************************************************************************)
\* records of a generated firmware image before its optional final record
MaxRecs == 2
\* threads that call getFirmware
NumThreads == 2
\* calls of getFirmware in a run
MaxCalls == 3

(***************************************************************************)
(* Program constants.                                                      *)
(***************************************************************************)
HEX_LINE_PREFIX == 58
HEX_HEADER_SIZE == 4
REC_TYPE_DATA == 0
REC_TYPE_EOF == 1
REC_TYPE_ESA == 2
REC_TYPE_SSA == 3
REC_TYPE_ELA == 4
REC_TYPE_SLA == 5
\* sizeof(binary), the line buffer of parseFirmware
BinarySize == 272
\* UInt8 HCI_VSC_LAUNCH_RAM[] = { 0x4c, 0xfc }
HCI_VSC_LAUNCH_RAM == <<76, 252>>

(***************************************************************************)
(* Arithmetic of the fixed-width types.                                    *)
(***************************************************************************)
RECURSIVE BitOr(_, _)
BitOr(a, b) ==
    IF a = 0 THEN b
    ELSE IF b = 0 THEN a
    ELSE (IF a % 2 = 1 \/ b % 2 = 1 THEN 1 ELSE 0) + 2 * BitOr(a \div 2, b \div 2)

\* the UInt32 hi * 2^16 + lo
U32(hi, lo) == [hi |-> hi % 65536, lo |-> lo % 65536]

\* x & 0xFFFF0000 on a UInt32
MaskHigh16(x) == U32(x.hi, 0)

\* x | y on UInt32
Or32(x, y) == U32(BitOr(x.hi, y.hi), BitOr(x.lo, y.lo))

\* the four bytes of a UInt32 as appendBytes(&address, 4) stores them
AddressBytes(a) == << a.lo % 256, a.lo \div 256, a.hi % 256, a.hi \div 256 >>

\* binary[i] of the zeroed line buffer; b holds the bytes written so far
Byte(b, i) == IF i < Len(b) THEN b[i + 1] ELSE 0

validHexChar(hex) ==
    \/ (hex >= 97 /\ hex <= 102)
    \/ (hex >= 65 /\ hex <= 70)
    \/ (hex >= 48 /\ hex <= 57)

\* hex_nibble(hex, output): the new value of output
hex_nibble(hex, output) ==
    LET shifted == (output * 16) % 256
        lower == IF hex >= 97
                 THEN BitOr(shifted, (10 + (hex - 97)) % 16)
                 ELSE shifted
    IN IF hex >= 65
       THEN BitOr(lower, (10 + (hex - 65)) % 16)
       ELSE BitOr(lower, (hex - 48) % 16)

Min(S) == CHOOSE x \in S : \A y \in S : x <= y

\* the sum of binary[from .. to], by halves
RECURSIVE SumRange(_, _, _)
SumRange(b, from, to) ==
    IF from > to THEN 0
    ELSE IF from = to THEN Byte(b, from)
    ELSE LET mid == (from + to) \div 2
         IN SumRange(b, from, mid) + SumRange(b, mid + 1, to)

\* for (i = 0; i < len; i++) crc += *(data + i)
SumBytes(b, len) == SumRange(b, 0, len - 1)

check_sum_short(b, len) == ((255 - (SumBytes(b, len - 1) % 256)) + 1) % 256

\* check_sum(data, len): (~crc + 1) & 0xFF; crc, a sum of at most 259 bytes,
\* stays below 2^32, and the low byte of ~crc is 255 - crc % 256
check_sum(b, len) == ((255 - (SumBytes(b, len) % 256)) + 1) % 256

(***************************************************************************)
(* Firmware images.  An image is the text of a sequence of records, each   *)
(* rendered as ':' and two hexadecimal digits per byte (length, offset,    *)
(* type, payload, checksum), between layout bytes.                         *)
(***************************************************************************)
SeqSum(s) == SumRange(s, 0, Len(s) - 1)

\* the header and payload bytes of a record, the bytes its checksum covers
RecordHeader(r) == << Len(r.payload), r.addr \div 256, r.addr % 256, r.type >>

RecordSum(type, addr, payload) ==
    (256 - (SeqSum(RecordHeader([type |-> type, addr |-> addr, payload |-> payload])
                   \o payload) % 256)) % 256

Record(type, addr, payload, lower) ==
    [type |-> type, addr |-> addr, payload |-> payload,
     sum |-> RecordSum(type, addr, payload), lower |-> lower, good |-> TRUE]

\* one payload byte changed to another value, the checksum byte left as it was
FlipPayload(r, i, v) == [r EXCEPT !.payload[i] = v, !.good = FALSE]

\* the checksum byte changed, the rest left as it was
FlipSum(r) == [r EXCEPT !.sum = (r.sum + 1) % 256, !.good = FALSE]

Pattern(seed, n) == [i \in 1..n |-> (seed + 7 * i) % 256]

HexDigit(n, lower) == IF n < 10 THEN 48 + n ELSE IF lower THEN 87 + n ELSE 55 + n

RenderLine(r) ==
    LET b == RecordHeader(r) \o r.payload \o << r.sum >>
    IN << HEX_LINE_PREFIX >> \o
       [i \in 1..(2 * Len(b)) |->
           IF i % 2 = 1 THEN HexDigit(b[(i + 1) \div 2] \div 16, r.lower)
                        ELSE HexDigit(b[i \div 2] % 16, r.lower)]

DataShort == Record(REC_TYPE_DATA, 22136, << 170 >>, TRUE)
DataEmpty == Record(REC_TYPE_DATA, 256, << >>, FALSE)
DataMax == Record(REC_TYPE_DATA, 65535, Pattern(3, 251), FALSE)
DataWrap == Record(REC_TYPE_DATA, 4660, Pattern(5, 252), FALSE)
EndOfFile == Record(REC_TYPE_EOF, 0, << >>, FALSE)
SegmentAddress == Record(REC_TYPE_ESA, 0, << 171, 205 >>, FALSE)
LinearAddress == Record(REC_TYPE_ELA, 0, << 18, 52 >>, FALSE)
LinearAddressHigh == Record(REC_TYPE_ELA, 0, << 255, 254 >>, TRUE)
StartSegment == Record(REC_TYPE_SSA, 0, << 0, 0, 1, 0 >>, FALSE)
StartLinear == Record(REC_TYPE_SLA, 0, << 0, 0, 1, 0 >>, FALSE)
UnknownType == Record(6, 0, << >>, FALSE)
DataZeroEnd == Record(REC_TYPE_DATA, 16, << 7, 0 >>, FALSE)

RecordChoices ==
    { DataShort, DataEmpty, DataMax, DataWrap, EndOfFile, SegmentAddress,
      LinearAddress, LinearAddressHigh, StartSegment, StartLinear, UnknownType,
      FlipPayload(DataShort, 1, 171), FlipPayload(DataZeroEnd, 2, 1),
      FlipSum(EndOfFile) }

\* the bytes around the records: before the first, after each, after the last
Layouts ==
    { [lead |-> << >>, eol |-> << 10 >>, trail |-> << >>],
      [lead |-> << >>, eol |-> << >>, trail |-> << >>],
      [lead |-> << 32 >>, eol |-> << 13, 10 >>, trail |-> << >>],
      [lead |-> << >>, eol |-> << 10 >>, trail |-> << 65 >>] }

Streams ==
    LET bodies == UNION { [1..n -> RecordChoices] : n \in 0..MaxRecs }
    IN bodies \cup { Append(b, EndOfFile) : b \in bodies }

RECURSIVE RenderRecords(_, _)
RenderRecords(recs, eol) ==
    IF recs = << >> THEN << >>
    ELSE RenderLine(Head(recs)) \o eol \o RenderRecords(Tail(recs), eol)

Image(recs, layout) == layout.lead \o RenderRecords(recs, layout.eol) \o layout.trail

\* what the memory after the image may hold when the parser reads past its end:
\* nothing mapped, a line end, a hexadecimal digit, an EndOfFile record
Tails ==
    { << >>, << 10 >>, << 70 >>,
      << 10 >> \o RenderLine(EndOfFile) \o << 10 >> }

(***************************************************************************)
(* parseFirmware.  A parse state p holds the locals of the call:           *)
(*   pc            where the call is: "begin", "while", "decode",          *)
(*                 "dispatch", "skip", "done" (returned), "fault"          *)
(*   data          the read position (data - getBytesNoCopy())             *)
(*   address       the running address                                     *)
(*   binary        the bytes written to the line buffer since its bzero    *)
(*   instructions  the contents of the OSArray, arrayRefs its retain       *)
(*                 count, instrRefs the retain counts of its elements      *)
(*   ret           "none", "list" (instructions returned) or "NULL"        *)
(*   log           the last DebugLog message                               *)
(*   tail          the memory after the image, once a read has met it      *)
(*   line          the number of lines begun                               *)
(***************************************************************************)
ParseInit ==
    [pc |-> "begin", data |-> 0, address |-> U32(0, 0), binary |-> << >>,
     instructions |-> << >>, arrayRefs |-> 0, instrRefs |-> << >>,
     ret |-> "none", log |-> "", fault |-> "", tailKnown |-> FALSE, tail |-> << >>,
     line |-> 0]

\* a read outside the mapped memory, a write outside the line buffer, a copy of
\* a negative length: the call does not return
Fault(p, why) == [p EXCEPT !.pc = "fault", !.fault = why]

\* exit_error: OSSafeReleaseNULL(instructions); return NULL;
ExitErrorLeak(p, msg) == [p EXCEPT !.pc = "done", !.ret = "NULL", !.log = msg]

ExitErrorPartial(p, msg) == [p EXCEPT !.pc = "done", !.ret = "list", !.log = msg]

ExitError(p, msg) ==
    [p EXCEPT !.pc = "done", !.ret = "NULL", !.log = msg,
              !.arrayRefs = 0,
              !.instrRefs = [i \in DOMAIN p.instrRefs |-> p.instrRefs[i] - 1]]

\* lines 188-200: the array is allocated and the first byte tested
ParseBegin(mem, p) ==
    { [p EXCEPT !.pc = "done", !.ret = "NULL"] }
    \cup
    { LET q == [p EXCEPT !.arrayRefs = 1]
      IN IF Len(mem) = 0 THEN Fault(q, "read")
         ELSE IF mem[1] # HEX_LINE_PREFIX
              THEN ExitError(q, "Invalid firmware data.")
              ELSE [q EXCEPT !.pc = "while"] }

\* line 202 and, after the loop, line 289
ParseWhile(mem, p) ==
    { IF p.data >= Len(mem) THEN Fault(p, "read")
      ELSE IF mem[p.data + 1] = HEX_LINE_PREFIX
           THEN [p EXCEPT !.pc = "decode"]
           ELSE ExitError(p, "Invalid firmware.") }

\* lines 210-214: two characters per byte while the first is a hex digit
\* The loop runs n times, n the first j at which the character at data + 2j
\* is no hex digit or lies past the mapped memory; iteration j writes
\* binary[j] from the characters at data + 2j and data + 2j + 1, the second
\* one unchecked.
ReadHexLine(mem, data) ==
    LET limit == (Len(mem) - data + 1) \div 2
        n == Min({ j \in 0..limit : \/ data + 2 * j >= Len(mem)
                                    \/ ~validHexChar(mem[data + 2 * j + 1]) })
        decoded(k) ==
            [j \in 1..k |-> hex_nibble(mem[data + 2 * j], hex_nibble(mem[data + 2 * j - 1], 0))]
    IN IF n > BinarySize
       THEN [fault |-> "overrun", data |-> data + 2 * BinarySize, binary |-> decoded(BinarySize)]
       ELSE IF n > 0 /\ data + 2 * n - 1 >= Len(mem)
       THEN [fault |-> "read", data |-> data + 2 * n - 1, binary |-> decoded(n - 1)]
       ELSE IF data + 2 * n >= Len(mem)
       THEN [fault |-> "read", data |-> data + 2 * n, binary |-> decoded(n)]
       ELSE [fault |-> "", data |-> data + 2 * n, binary |-> decoded(n)]

\* lines 204-214
ParseDecode(mem, p) ==
    LET r == ReadHexLine(mem, p.data + 1)
        q == [p EXCEPT !.data = r.data, !.binary = r.binary, !.line = p.line + 1]
    IN { IF r.fault # "" THEN Fault(q, r.fault) ELSE [q EXCEPT !.pc = "dispatch"] }

\* lines 285-286
\* data stops at the first character that is a hex digit or the line prefix
SkipTrailing(mem, data) ==
    LET stop == Min({ i \in data..Len(mem) :
                        \/ i >= Len(mem)
                        \/ validHexChar(mem[i + 1])
                        \/ mem[i + 1] = HEX_LINE_PREFIX })
    IN IF stop >= Len(mem) THEN [fault |-> "read", data |-> stop]
       ELSE [fault |-> "", data |-> stop]

ParseSkip(mem, p) ==
    LET r == SkipTrailing(mem, p.data)
        q == [p EXCEPT !.data = r.data]
    IN { IF r.fault # "" THEN Fault(q, r.fault) ELSE [q EXCEPT !.pc = "while"] }

MergeAddressUnmasked(address, addr) == Or32(address, U32(0, addr))

\* line 236: address = (address & 0xFFFF0000) | addr
MergeAddress(address, addr) == Or32(MaskHigh16(address), U32(0, addr))

\* line 239: length += 4 on a UInt8
InstructionLength(length) == (length + 4) % 256

\* lines 261-262: address = binary[4] << 8 | binary[5]; address <<= 4
SegmentBase(b) ==
    LET segment == BitOr(Byte(b, 4) * 256, Byte(b, 5))
    IN U32(segment \div 4096, (segment % 4096) * 16)

\* line 272: address = binary[4] << 24 | binary[5] << 16
LinearBase(b) == Or32(U32(Byte(b, 4) * 256, 0), U32(Byte(b, 5), 0))

\* lines 246-249: the bytes appended to the instruction; count is length - 4 as
\* the int the call converts to the unsigned length of appendBytes
InstructionBytes(b, length, address, count) ==
    HCI_VSC_LAUNCH_RAM \o << length >> \o AddressBytes(address)
    \o [i \in 1..count |-> Byte(b, HEX_HEADER_SIZE + i - 1)]

AddInstructionFirst(p, bytes) ==
    [p EXCEPT !.instructions = << bytes >> \o p.instructions,
              !.instrRefs = Append(p.instrRefs, 1),
              !.pc = "skip"]

\* lines 251-253: instructions->setObject(instruction); instruction->release()
AddInstruction(p, bytes) ==
    [p EXCEPT !.instructions = Append(p.instructions, bytes),
              !.instrRefs = Append(p.instrRefs, 1),
              !.pc = "skip"]

\* lines 234-254: a Data record.  The allocation of the instruction may fail;
\* a negative length - 4 reaches appendBytes as a length near 2^32, which
\* appends nothing or copies until it faults.
DataRecord(p, length, addr) ==
    LET address == MergeAddress(p.address, addr)
        len8 == InstructionLength(length)
        count == len8 - 4
        q == [p EXCEPT !.address = address]
    IN { ExitError(q, p.log) }
       \cup
       (IF count >= 0
        THEN { AddInstruction(q, InstructionBytes(p.binary, len8, address, count)) }
        ELSE { AddInstruction(q, InstructionBytes(p.binary, len8, address, 0)),
               Fault(q, "append") })

\* lines 256-257: return instructions
EndOfFileRecord(p) == { [p EXCEPT !.pc = "done", !.ret = "list"] }

\* lines 265-268
StartSegmentIgnored(p) == { [p EXCEPT !.pc = "skip"] }

StartSegmentRecord(p) ==
    { ExitError(p, "Invalid firmware, unsupported start segment address instruction.") }

\* lines 275-278
StartLinearRecord(p) ==
    { ExitError(p, "Invalid firmware, unsupported start linear address instruction.") }

\* lines 217-282: the line is parsed, its checksum compared, its type dispatched on
ParseDispatch(mem, p) ==
    LET b == p.binary
        length == Byte(b, 0)
        addr == BitOr(Byte(b, 1) * 256, Byte(b, 2))
        record_type == Byte(b, 3)
        checksum == Byte(b, HEX_HEADER_SIZE + length)
        calc_checksum == check_sum(b, HEX_HEADER_SIZE + length)
    IN IF checksum # calc_checksum
       THEN { ExitError(p, "Invalid firmware, checksum mismatch.") }
       ELSE CASE record_type = REC_TYPE_DATA -> DataRecord(p, length, addr)
              [] record_type = REC_TYPE_EOF -> EndOfFileRecord(p)
              [] record_type = REC_TYPE_ESA ->
                    { [p EXCEPT !.address = SegmentBase(b), !.pc = "skip"] }
              [] record_type = REC_TYPE_SSA -> StartSegmentRecord(p)
              [] record_type = REC_TYPE_ELA ->
                    { [p EXCEPT !.address = LinearBase(b), !.pc = "skip"] }
              [] record_type = REC_TYPE_SLA -> StartLinearRecord(p)
              [] OTHER ->
                    { ExitError(p, "Invalid firmware, unknown record type encountered.") }

ParseStepOn(mem, p) ==
    CASE p.pc = "begin" -> ParseBegin(mem, p)
      [] p.pc = "while" -> ParseWhile(mem, p)
      [] p.pc = "decode" -> ParseDecode(mem, p)
      [] p.pc = "dispatch" -> ParseDispatch(mem, p)
      [] p.pc = "skip" -> ParseSkip(mem, p)
      [] OTHER -> { }

\* One step of parseFirmware(firmwareData) on the bytes `image`.  The memory
\* after the image is fixed by the first read that passes the end of the image.
ParseStep(image, p) ==
    IF p.tailKnown THEN ParseStepOn(image \o p.tail, p)
    ELSE LET within == ParseStepOn(image, p)
         IN IF \E s \in within : s.pc = "fault" /\ s.fault = "read"
            THEN UNION { ParseStepOn(image \o t, [p EXCEPT !.tailKnown = TRUE, !.tail = t])
                         : t \in Tails }
            ELSE within

ParseReturned(p) == p.pc = "done"
ParseEnded(p) == p.pc \in { "done", "fault" }

\* every way a call parseFirmware(image) can end
RECURSIVE ParseRuns(_, _)
ParseRuns(image, S) ==
    IF \A p \in S : ParseEnded(p) THEN S
    ELSE ParseRuns(image,
                   UNION { IF ParseEnded(p) THEN { p } ELSE ParseStep(image, p) : p \in S })

parseFirmware(image) == ParseRuns(image, { ParseInit })

(***************************************************************************)
(* The parser alone, on every generated image.                             *)
(***************************************************************************)
VARIABLES recs, layout, image, parse

parseVars == << recs, layout, image, parse >>

(***************************************************************************)
(* The state of the service: the cache mFirmwares (key -> instruction      *)
(* list), the two locks (their owner, or Free), per calling thread the     *)
(* locals of its getFirmware call (th), per thread the state of the        *)
(* callback of its resource request (cb), the "Firmwares" property         *)
(* (config) and the compiled-in firmware table (embedded).  calls, arrays, *)
(* loads and stores count calls of getFirmware, OSArrays allocated, calls  *)
(* of loadFirmware per key and cache insertions per key.                   *)
(***************************************************************************)
VARIABLES running, mFirmwares, mDataLock, mCompletionLock, th, cb,
          config, embedded, calls, arrays, loads, stores, panicked, dangling

cacheVars == << running, mFirmwares, mDataLock, mCompletionLock, th, cb,
                config, embedded, calls, arrays, loads, stores, panicked, dangling >>

VARIABLES input, dz, load

inflateVars == << input, dz, load >>

vars == << parseVars, cacheVars, inflateVars >>

Threads == 1..NumThreads
Keys == { "k1", "k2" }
Free == << >>
ThreadOwnerNone(t) == Free

\* the holder of a lock: thread t in getFirmware or loadFirmwareFile
ThreadOwner(t) == << "thread", t >>
CallbackOwner(t) == << "callback", t >>

NullData == [null |-> TRUE, bytes |-> << >>]
Data(bytes) == [null |-> FALSE, bytes |-> bytes]
NullList == [null |-> TRUE, id |-> 0, instructions |-> << >>]
List(id, instructions) == [null |-> FALSE, id |-> id, instructions |-> instructions]

\* loadFirmware on its own, at its entry, for a blob that comes from `origin`
\* and that `before` references hold: the place in the call, the references
\* the call has taken on the blob, the releases of configuredData and of
\* firmwareData, and what the call returned
LoadInit(origin, before) ==
    [pc |-> "source", origin |-> origin, before |-> before, acquired |-> 0,
     blobReleases |-> 0, imageReleases |-> 0, ret |-> "none"]

\* no call of loadFirmware followed on its own
LoadIdle == [LoadInit("none", 0) EXCEPT !.pc = "idle"]

\* decompressFirmware(firmware) at its entry
DecompressInit(firmware) ==
    [pc |-> "magic", firmware |-> firmware, retains |-> 0, allocs |-> 0,
     frees |-> 0, buffer |-> "none", inits |-> 0, ends |-> 0, zstream |-> "none",
     status |-> << >>, copies |-> 0, result |-> NullData, same |-> FALSE]

\* no call of decompressFirmware under way
NotDecompressing ==
    /\ input = NullData
    /\ dz = [DecompressInit(NullData) EXCEPT !.pc = "idle"]
    /\ load = LoadIdle

ThreadIdle ==
    [pc |-> "idle", key |-> "", file |-> 0, context |-> NullData, contextLive |-> FALSE,
     configuredData |-> NullData, firmwareData |-> NullData,
     instructions |-> NullList, ret |-> NullList, consulted |-> << >>]

\* no "Firmwares" property; no compiled-in firmware
NoConfig == [present |-> FALSE, firmwares |-> [k \in Keys |-> NullData]]
NoEmbedded == [k \in Keys |-> [zhx |-> NullData, hex |-> NullData]]

\* start(): an empty cache, both locks allocated and free
Started ==
    /\ running = TRUE
    /\ mFirmwares = [k \in Keys |-> NullList]
    /\ mDataLock = Free
    /\ mCompletionLock = Free
    /\ th = [t \in Threads |-> ThreadIdle]
    /\ cb = [t \in Threads |-> "none"]
    /\ calls = 0
    /\ arrays = 0
    /\ loads = [k \in Keys |-> 0]
    /\ stores = [k \in Keys |-> 0]
    /\ panicked = FALSE
    /\ dangling = FALSE

ParserInit ==
    /\ recs \in Streams
    /\ layout \in Layouts
    /\ image = Image(recs, layout)
    /\ parse = ParseInit
    /\ Started
    /\ config = NoConfig
    /\ embedded = NoEmbedded
    /\ NotDecompressing

Begin ==
    /\ parse.pc = "begin"
    /\ parse' \in ParseStep(image, parse)
    /\ UNCHANGED << recs, layout, image, cacheVars, inflateVars >>

While ==
    /\ parse.pc = "while"
    /\ parse' \in ParseStep(image, parse)
    /\ UNCHANGED << recs, layout, image, cacheVars, inflateVars >>

Decode ==
    /\ parse.pc = "decode"
    /\ parse' \in ParseStep(image, parse)
    /\ UNCHANGED << recs, layout, image, cacheVars, inflateVars >>

Dispatch ==
    /\ parse.pc = "dispatch"
    /\ parse' \in ParseStep(image, parse)
    /\ UNCHANGED << recs, layout, image, cacheVars, inflateVars >>

Skip ==
    /\ parse.pc = "skip"
    /\ parse' \in ParseStep(image, parse)
    /\ UNCHANGED << recs, layout, image, cacheVars, inflateVars >>

ParserNext == Begin \/ While \/ Decode \/ Dispatch \/ Skip

ParserSpec == ParserInit /\ [][ParserNext]_vars

(***************************************************************************)
(* The records of the image against what the parser did with them.  While  *)
(* the image starts with its first record, the line the parser is at is    *)
(* record number parse.line.                                               *)
(***************************************************************************)
Synced == layout.lead = << >> /\ parse.line \in 1..Len(recs)

Accepted(r) == r.good /\ r.type \in { REC_TYPE_DATA, REC_TYPE_ESA, REC_TYPE_ELA }

ValidEof(r) == r.good /\ r.type = REC_TYPE_EOF

\* the running address after the first k records, as the format defines it
RECURSIVE RefAddress(_)
RefAddress(k) ==
    IF k = 0 THEN U32(0, 0)
    ELSE LET A == RefAddress(k - 1)
             r == recs[k]
             word == r.payload[1] * 256 + r.payload[2]
         IN CASE r.type = REC_TYPE_DATA -> U32(A.hi, r.addr)
              [] r.type = REC_TYPE_ELA -> U32(word, 0)
              [] r.type = REC_TYPE_ESA -> U32(word \div 4096, (word * 16) % 65536)
              [] OTHER -> A

\* the numbers of the Data records among the first k records, in file order
DataIndices(k) == SelectSeq([i \in 1..k |-> i], LAMBDA i : recs[i].type = REC_TYPE_DATA)

\* the instruction of Data record k: opcode, length + 4, address, payload
RefInstruction(k) ==
    << 76, 252, Len(recs[k].payload) + 4 >> \o AddressBytes(RefAddress(k)) \o recs[k].payload

Last(s) == s[Len(s)]

(* C1: parseFirmware is all-or-nothing.  Whenever the call has returned, it
   either returned the instruction list, still retained, with every
   instruction in it retained, out of an EndOfFile record, or it returned
   NULL with the list and every instruction built so far released. *)
C1_AllOrNothing ==
    parse.pc = "done" =>
        \/ /\ parse.ret = "list"
           /\ parse.arrayRefs = 1
           /\ \A i \in DOMAIN parse.instrRefs : parse.instrRefs[i] = 1
           /\ Byte(parse.binary, 3) = REC_TYPE_EOF
        \/ /\ parse.ret = "NULL"
           /\ parse.arrayRefs = 0
           /\ \A i \in DOMAIN parse.instrRefs : parse.instrRefs[i] = 0

\* a checksum failure after a Data record had been accepted
C1_Witness ==
    /\ parse.pc = "done"
    /\ parse.ret = "NULL"
    /\ Len(parse.instructions) >= 1
    /\ parse.log = "Invalid firmware, checksum mismatch."

(* C2: a list is returned only out of an EndOfFile record; the list returned
   at record k holds one instruction per Data record before k, in file
   order, each built from its record; and an image of accepted records up to
   an EndOfFile record yields that list unless an allocation fails or the
   call faults (a Data length above 251, a read past the image). *)
C2_ListOfDataRecords ==
    /\ (parse.pc = "done" /\ parse.ret = "list") => Byte(parse.binary, 3) = REC_TYPE_EOF
    /\ (Synced /\ parse.pc = "done" /\ parse.ret = "list") =>
          LET k == parse.line
              idx == DataIndices(k - 1)
          IN /\ ValidEof(recs[k])
             /\ \A j \in 1..(k - 1) : Accepted(recs[j])
             /\ Len(parse.instructions) = Len(idx)
             /\ \A i \in 1..Len(idx) :
                   /\ SubSeq(parse.instructions[i], 4, 7) = AddressBytes(RefAddress(idx[i]))
                   /\ Len(recs[idx[i]].payload) <= 251
                        => parse.instructions[i] = RefInstruction(idx[i])
    /\ \A k \in 1..Len(recs) :
          (/\ layout.lead = << >>
           /\ ValidEof(recs[k])
           /\ \A j \in 1..(k - 1) : Accepted(recs[j])
           /\ ParseEnded(parse))
          => \/ parse.pc = "done" /\ parse.ret = "list" /\ parse.line = k
             \/ parse.pc = "done" /\ parse.ret = "NULL" /\ parse.log = ""
             \/ parse.pc = "fault" /\ parse.fault = "append"
             \/ /\ parse.pc = "fault" /\ parse.fault = "read"
                /\ layout.eol = << >> /\ layout.trail = << >> /\ k = Len(recs)

\* two Data records before the EndOfFile record, two instructions in their order
C2_Witness ==
    /\ Synced
    /\ parse.pc = "done"
    /\ parse.ret = "list"
    /\ parse.line = 3
    /\ recs[1] = DataShort
    /\ recs[2] = DataEmpty
    /\ parse.instructions = << RefInstruction(1), RefInstruction(2) >>

(* C3: the running address is 0 before the first record; after each accepted
   record it is the address the records so far define (the offset merged
   into the low half by a Data record, hi16 * 2^16 by ExtendedLinearAddress,
   segment * 16 by ExtendedSegmentAddress), and the instruction of a Data
   record carries that merged address.  ExtendedLinearAddress(0x1234) then
   Data(offset 0x5678, payload AA) gives address bytes 78 56 34 12. *)
C3_AddressAccumulation ==
    /\ parse.line = 0 => parse.address = U32(0, 0)
    /\ (Synced /\ parse.pc \in { "skip", "while" }) =>
          /\ parse.address = RefAddress(parse.line)
          /\ recs[parse.line].type = REC_TYPE_DATA =>
                SubSeq(Last(parse.instructions), 4, 7) = AddressBytes(RefAddress(parse.line))
    /\ (Synced /\ parse.pc = "skip" /\ parse.line = 2
        /\ recs[1] = LinearAddress /\ recs[2] = DataShort) =>
          /\ parse.address = U32(4660, 22136)
          /\ Last(parse.instructions) = << 76, 252, 5, 120, 86, 52, 18, 170 >>

\* a Data record after a segment address whose low half is not zero
C3_Witness ==
    /\ Synced
    /\ parse.pc = "skip"
    /\ parse.line = 2
    /\ recs[1] = SegmentAddress
    /\ recs[2] = DataShort
    /\ parse.address = U32(10, 22136)

(* C4: the instruction of every accepted Data record is the opcode 4c fc,
   the length byte L + 4, the four address bytes least significant first and
   the L payload bytes of the record; the copy of the payload never runs
   with another length. *)
C4_InstructionLayout ==
    /\ parse.fault # "append"
    /\ (Synced /\ parse.pc = "skip" /\ recs[parse.line].type = REC_TYPE_DATA) =>
          Last(parse.instructions) = RefInstruction(parse.line)

\* the two's complement of the sum of the bytes the length byte of b covers
RefChecksum(b) == (256 - (SumRange(b, 0, HEX_HEADER_SIZE + Byte(b, 0) - 1) % 256)) % 256

UnsupportedLogs ==
    { "Invalid firmware, unsupported start segment address instruction.",
      "Invalid firmware, unsupported start linear address instruction." }

(* C5: a record with one payload byte (or its checksum byte) changed is
   never dispatched: once the parser has compared its checksum the call has
   returned NULL with the checksum-mismatch message and the list released;
   and every line that was dispatched on its type carried the two's
   complement of the sum of its bytes [0, 4+length) at offset 4+length. *)
C5_ChecksumEnforced ==
    /\ (Synced /\ ~recs[parse.line].good /\ parse.pc \notin { "dispatch", "fault" }) =>
          /\ parse.pc = "done"
          /\ parse.ret = "NULL"
          /\ parse.arrayRefs = 0
          /\ parse.log = "Invalid firmware, checksum mismatch."
    /\ (/\ parse.line >= 1
        /\ \/ parse.pc \in { "skip", "while" }
           \/ parse.pc = "done" /\ parse.ret = "list"
           \/ parse.pc = "done" /\ parse.log \in UnsupportedLogs
           \/ parse.pc = "done" /\ parse.log = "Invalid firmware, unknown record type encountered.") =>
          Byte(parse.binary, HEX_HEADER_SIZE + Byte(parse.binary, 0)) = RefChecksum(parse.binary)

\* a Data record with a changed payload byte, met after an accepted Data record
C5_Witness ==
    /\ Synced
    /\ parse.line = 2
    /\ recs[1] = DataShort
    /\ recs[2] = FlipPayload(DataZeroEnd, 2, 1)
    /\ parse.pc = "done"
    /\ parse.log = "Invalid firmware, checksum mismatch."

Unsupported(r) == r.good /\ r.type \in { REC_TYPE_SSA, REC_TYPE_SLA }

(* C6 as stated: an image that holds a line of type 3 or 5 with a correct
   checksum, at any position, makes the call return no list. *)
C6_RejectedAnywhere ==
    (parse.pc = "done" /\ \E k \in 1..Len(recs) : Unsupported(recs[k])) => parse.ret = "NULL"

(* C6, amended: a line of type 3 or 5 with a correct checksum that no valid
   EndOfFile record precedes makes the call return no list; when accepted
   records precede it, at whatever position, the call ends at that line with
   the unsupported-type message (or earlier, by an allocation failure or a
   fault). *)
C6_RejectedBeforeEof ==
    /\ \A k \in 1..Len(recs) :
          (/\ Unsupported(recs[k])
           /\ \A j \in 1..(k - 1) : ~ValidEof(recs[j])
           /\ parse.pc = "done")
          => parse.ret = "NULL"
    /\ (Synced /\ Unsupported(recs[parse.line]) /\ parse.pc \notin { "dispatch", "fault" }) =>
          /\ parse.pc = "done"
          /\ parse.ret = "NULL"
          /\ parse.log \in UnsupportedLogs
    /\ \A k \in 1..Len(recs) :
          (/\ layout.lead = << >>
           /\ Unsupported(recs[k])
           /\ \A j \in 1..(k - 1) : Accepted(recs[j])
           /\ ParseEnded(parse))
          => \/ /\ parse.pc = "done" /\ parse.ret = "NULL"
                /\ parse.log \in UnsupportedLogs \cup { "" }
             \/ parse.pc = "fault" /\ parse.fault = "append"
             \/ /\ parse.pc = "fault" /\ parse.fault = "read"
                /\ layout.eol = << >> /\ layout.trail = << >> /\ k = Len(recs)

\* a StartLinearAddress line in second position, after an accepted Data record
C6_Witness ==
    /\ Synced
    /\ parse.line = 2
    /\ recs[1] = DataShort
    /\ recs[2] = StartLinear
    /\ parse.pc = "done"
    /\ parse.ret = "NULL"
    /\ parse.log = "Invalid firmware, unsupported start linear address instruction."

(* C7: an image of accepted records with no EndOfFile record makes the call
   return NULL by the invalid-format exit (or by an allocation failure). *)
C7_NoEndOfFileFails ==
    (/\ layout.lead = << >>
     /\ Len(recs) >= 1
     /\ \A k \in 1..Len(recs) : Accepted(recs[k]) /\ Len(recs[k].payload) <= 251
     /\ ParseEnded(parse))
    => /\ parse.pc = "done"
       /\ parse.ret = "NULL"
       /\ parse.log \in { "Invalid firmware.", "" }

(***************************************************************************)
(* decompressFirmware.  zlib is outside the repository: inflate is         *)
(* modelled on streams of one stored block (header 78 01, block header 01, *)
(* LEN, NLEN, the bytes, Adler-32), and answers Z_DATA_ERROR on any other  *)
(* stream.                                                                 *)
(***************************************************************************)
Z_OK == 0
Z_STREAM_END == 1
Z_DATA_ERROR == -3
Z_BUF_ERROR == -5

\* the Adler-32 sums (a, b) of the first n bytes, each modulo 65521: a is one
\* plus the sum of the bytes, b the sum of the values a takes byte by byte
AdlerA(bytes, n) == (1 + SeqSum(SubSeq(bytes, 1, n))) % 65521
Adler(bytes, n) ==
    [a |-> AdlerA(bytes, n),
     b |-> SeqSum([k \in 1..n |-> AdlerA(bytes, k)]) % 65521]

\* a zlib stream holding `bytes` in one stored block
ZlibStored(bytes) ==
    LET n == Len(bytes)
        sum == Adler(bytes, n)
    IN << 120, 1, 1, n % 256, n \div 256, 255 - (n % 256), 255 - (n \div 256) >>
       \o bytes
       \o << sum.b \div 256, sum.b % 256, sum.a \div 256, sum.a % 256 >>

\* inflate(&zstream, Z_FINISH) on the input `in` with avail_out bytes of
\* room: the statuses and output the interface of inflate allows.  A stream
\* that stops before its end has made progress without reaching the end:
\* Z_BUF_ERROR, or Z_OK ("some progress has been made")
Inflate(in, avail_out) ==
    LET n == IF Len(in) >= 5 THEN in[4] + 256 * in[5] ELSE 0
        wellFormed ==
            /\ Len(in) >= 3 => in[3] = 1
            /\ Len(in) >= 6 => in[6] = 255 - in[4]
            /\ Len(in) >= 7 => in[7] = 255 - in[5]
        out == SubSeq(in, 8, 7 + n)
        sum == Adler(out, n)
    IN IF ~wellFormed THEN { [status |-> Z_DATA_ERROR, out |-> << >>] }
       ELSE IF Len(in) < 7 + n + 4
            THEN { [status |-> st, out |-> SubSeq(in, 8, Min({ Len(in), 7 + n }))]
                   : st \in { Z_BUF_ERROR, Z_OK } }
       ELSE IF n > avail_out
            THEN { [status |-> Z_BUF_ERROR, out |-> SubSeq(out, 1, avail_out)] }
       ELSE IF SubSeq(in, 8 + n, 11 + n)
               # << sum.b \div 256, sum.b % 256, sum.a \div 256, sum.a % 256 >>
            THEN { [status |-> Z_DATA_ERROR, out |-> out] }
       ELSE { [status |-> Z_STREAM_END, out |-> out] }

\* the bytes that may lie after a buffer shorter than the two bytes read
OutsideBytes == { 0, 1 }

\* lines 88-92: the first two bytes as a UInt16 against the three zlib headers
IsCompressed(bytes) ==
    LET magic == bytes[1] + 256 * bytes[2]
    IN magic \in { 376, 40056, 55928 }

PassThroughCopy(z) ==
    [z EXCEPT !.pc = "done", !.copies = 1, !.result = Data(z.firmware.bytes)]

\* lines 94-96: firmware->retain(); return firmware
PassThrough(z) ==
    [z EXCEPT !.pc = "done", !.retains = 1, !.result = z.firmware, !.same = TRUE]

\* lines 87-97: the UInt16 at the start of the bytes is read whatever the
\* length: no bytes, a null pointer; one byte, the byte after the buffer
DecompressMagic(z) ==
    LET bytes == z.firmware.bytes
    IN IF Len(bytes) = 0 THEN { [z EXCEPT !.pc = "fault"] }
       ELSE { IF IsCompressed(seen) THEN [z EXCEPT !.pc = "alloc"] ELSE PassThrough(z)
              : seen \in IF Len(bytes) = 1 THEN { << bytes[1], o >> : o \in OutsideBytes }
                                           ELSE { bytes } }

\* lines 99-112: the scratch buffer of four times the length
DecompressAlloc(z) ==
    { [z EXCEPT !.pc = "init", !.allocs = 1, !.buffer = "allocated"] }

\* lines 114-120: inflateInit succeeds, or fails and the buffer is freed
DecompressInflateInit(z) ==
    { [z EXCEPT !.pc = "inflate", !.inits = 1, !.zstream = "ready"],
      [z EXCEPT !.pc = "done", !.frees = @ + 1, !.buffer = "freed"] }

\* line 124: the statuses for which a result is made
InflateAccepted(status) == status = Z_STREAM_END \/ status = Z_OK

\* lines 122-126
DecompressInflate(z) ==
    { [z EXCEPT !.pc = "end", !.status = << r.status >>,
                !.copies = IF InflateAccepted(r.status) THEN 1 ELSE 0,
                !.result = IF InflateAccepted(r.status) THEN Data(r.out) ELSE NullData]
      : r \in Inflate(z.firmware.bytes, Len(z.firmware.bytes) * 4) }

\* lines 128-131
DecompressEnd(z) ==
    { [z EXCEPT !.pc = "done", !.ends = @ + 1, !.zstream = "ended",
                !.frees = @ + 1, !.buffer = "freed"] }

DecompressStep(z) ==
    CASE z.pc = "magic" -> DecompressMagic(z)
      [] z.pc = "alloc" -> DecompressAlloc(z)
      [] z.pc = "init" -> DecompressInflateInit(z)
      [] z.pc = "inflate" -> DecompressInflate(z)
      [] z.pc = "end" -> DecompressEnd(z)
      [] OTHER -> { }

DecompressEnded(z) == z.pc \in { "done", "fault" }

RECURSIVE DecompressRuns(_)
DecompressRuns(zs) ==
    IF \A z \in zs : DecompressEnded(z) THEN zs
    ELSE DecompressRuns(UNION { IF DecompressEnded(z) THEN { z } ELSE DecompressStep(z)
                                : z \in zs })

\* lines 79-132: the ways a call can end
decompressFirmware(firmware) == DecompressRuns({ DecompressInit(firmware) })

(***************************************************************************)
(* The firmware sources of the cache model.                                *)
(***************************************************************************)
NormalLayout == [lead |-> << >>, eol |-> << 10 >>, trail |-> << >>]
HexGood == Image(<< LinearAddress, DataShort, EndOfFile >>, NormalLayout)
HexEmpty == Image(<< EndOfFile >>, NormalLayout)
HexBad == Image(<< DataShort, FlipSum(EndOfFile) >>, NormalLayout)
HexNoEof == Image(<< DataShort >>, [lead |-> << >>, eol |-> << >>, trail |-> << >>])
ZStored == ZlibStored(HexGood)
ZBroken == << 120, 1, 1, 4, 0, 0, 0, 58, 48, 48, 48 >>

\* what the callback of a resource request may deliver: failure, or the file
FileOutcomes == { NullData, Data(HexEmpty), Data(ZStored) }

\* the "Firmwares" property: absent, or holding a good hex file for k1 and
\* for k2 a hex file with a bad checksum
Configs ==
    { NoConfig,
      [present |-> TRUE,
       firmwares |-> [k \in Keys |-> IF k = "k1" THEN Data(HexGood) ELSE Data(HexBad)]] }

\* the firmware compiled in (FIRMWAREDATA): none, or a damaged compressed
\* file for k1 and for k2 a hex file that ends without an EndOfFile record
Embeddeds ==
    { NoEmbedded,
      [k \in Keys |-> IF k = "k1" THEN [zhx |-> Data(ZBroken), hex |-> NullData]
                                  ELSE [zhx |-> NullData, hex |-> Data(HexNoEof)]] }

\* lines 417-426: the file of the n-th loadFirmwareFile call
FileNameKeyFirst(n) ==
    CASE n = 1 -> "key.zhx"
      [] n = 2 -> "key.hex"
      [] n = 3 -> "vendor_product.zhx"
      [] n = 4 -> "vendor_product.hex"

\* lines 415-426: the n-th file loadFirmwareFiles asks for
FileName(n) ==
    CASE n = 1 -> "vendor_product.zhx"
      [] n = 2 -> "vendor_product.hex"
      [] n = 3 -> "key.zhx"
      [] n = 4 -> "key.hex"

\* how parseFirmware(image) can end, as its caller sees it
ParseResults(bytes) ==
    { IF p.pc = "fault" THEN [kind |-> "fault", instructions |-> << >>]
      ELSE IF p.ret = "list" THEN [kind |-> "list", instructions |-> p.instructions]
      ELSE [kind |-> "NULL", instructions |-> << >>]
      : p \in parseFirmware(bytes) }

(***************************************************************************)
(* getFirmware, loadFirmware, loadFirmwareFiles, loadFirmwareFile and      *)
(* requestResourceCallback, one action per stretch between lock operations.*)
(***************************************************************************)
Init ==
    /\ recs = << >>
    /\ layout = NormalLayout
    /\ image = << >>
    /\ parse = ParseInit
    /\ Started
    /\ config \in Configs
    /\ embedded \in Embeddeds
    /\ NotDecompressing

Alive == running /\ ~panicked

CanLockDataAlways(t) == TRUE

\* line 523: IOLockLock(mDataLock) returns once the lock is free
CanLockData(t) == mDataLock = Free

CacheLookupMiss(k) == NullList

\* line 524: OSDynamicCast(OSArray, mFirmwares->getObject(firmwareKey))
CacheLookup(k) == mFirmwares[k]

StoreAlways(key, instructions) ==
    [mFirmwares EXCEPT ![key] = IF instructions.null THEN List(0, << >>) ELSE instructions]

\* lines 533-537: the cache after the load returned `instructions`
StoreResult(key, instructions) ==
    IF instructions.null THEN mFirmwares
    ELSE [mFirmwares EXCEPT ![key] = instructions]

\* lines 513-521: a call; a null or empty key returns NULL at once
Call(t, k) ==
    /\ Alive
    /\ th[t].pc = "idle"
    /\ calls < MaxCalls
    /\ calls' = calls + 1
    /\ th' = [th EXCEPT ![t] =
                IF k = "" THEN [ThreadIdle EXCEPT !.ret = NullList]
                ELSE [ThreadIdle EXCEPT !.pc = "lockData", !.key = k]]
    /\ UNCHANGED << running, mFirmwares, mDataLock, mCompletionLock, cb, config,
                    embedded, arrays, loads, stores, panicked, dangling, parseVars,
                    inflateVars >>

\* lines 523-530: the lock is taken and the cache consulted; a miss enters
\* loadFirmware, loadFirmwareFiles and the first loadFirmwareFile
LockData(t) ==
    /\ Alive
    /\ th[t].pc = "lockData"
    /\ CanLockData(t)
    /\ mDataLock' = ThreadOwner(t)
    /\ LET found == CacheLookup(th[t].key)
       IN IF ~found.null
          THEN /\ th' = [th EXCEPT ![t].instructions = found, ![t].pc = "unlockData"]
               /\ loads' = loads
          ELSE /\ th' = [th EXCEPT ![t].pc = "requestFile", ![t].file = 1]
               /\ loads' = [loads EXCEPT ![th[t].key] = @ + 1]
    /\ UNCHANGED << running, mFirmwares, mCompletionLock, cb, config, embedded,
                    calls, arrays, stores, panicked, dangling, parseVars,
                    inflateVars >>

\* lines 376-396: the completion lock is taken, the context set up on the
\* stack and the resource requested
RequestFile(t) ==
    /\ Alive
    /\ th[t].pc = "requestFile"
    /\ mCompletionLock = Free
    /\ mCompletionLock' = ThreadOwner(t)
    /\ th' = [th EXCEPT ![t].context = NullData, ![t].contextLive = TRUE,
                        ![t].consulted = Append(@, FileName(th[t].file)),
                        ![t].pc = "sleep"]
    /\ cb' = [cb EXCEPT ![t] = "pending"]
    /\ UNCHANGED << running, mFirmwares, mDataLock, config, embedded, calls, arrays,
                    loads, stores, panicked, dangling, parseVars,
                    inflateVars >>

IOLockSleepNoWait == "relock"

\* line 399: where IOLockSleep(mCompletionLock, this, 0) leaves the caller:
\* waiting for a wakeup on the event
IOLockSleep == "sleeping"

\* line 399: IOLockSleep releases the lock and waits, in one step
Sleep(t) ==
    /\ Alive
    /\ th[t].pc = "sleep"
    /\ mCompletionLock' = Free
    /\ th' = [th EXCEPT ![t].pc = IOLockSleep]
    /\ UNCHANGED << running, mFirmwares, mDataLock, cb, config, embedded, calls,
                    arrays, loads, stores, panicked, dangling, parseVars,
                    inflateVars >>

\* line 357, on the thread that delivers the resource
CallbackLock(t) ==
    /\ Alive
    /\ cb[t] = "pending"
    /\ mCompletionLock = Free
    /\ mCompletionLock' = CallbackOwner(t)
    /\ cb' = [cb EXCEPT ![t] = "locked"]
    /\ dangling' = (dangling \/ ~th[t].contextLive)
    /\ UNCHANGED << running, mFirmwares, mDataLock, th, config, embedded, calls,
                    arrays, loads, stores, panicked, parseVars,
                    inflateVars >>

\* lines 359-368: on success the data is stored in the context; unlock
CallbackStore(t, outcome) ==
    /\ Alive
    /\ cb[t] = "locked"
    /\ mCompletionLock' = Free
    /\ th' = IF outcome.null THEN th ELSE [th EXCEPT ![t].context = outcome]
    /\ cb' = [cb EXCEPT ![t] = "unlocked"]
    /\ dangling' = (dangling \/ ~th[t].contextLive)
    /\ UNCHANGED << running, mFirmwares, mDataLock, config, embedded, calls, arrays,
                    loads, stores, panicked, parseVars,
                    inflateVars >>

\* line 371: IOLockWakeup(lock, me, true) wakes one thread sleeping on the
\* event, if there is one
CallbackWakeup(t) ==
    /\ Alive
    /\ cb[t] = "unlocked"
    /\ cb' = [cb EXCEPT ![t] = "none"]
    /\ dangling' = (dangling \/ ~th[t].contextLive)
    /\ IF \E u \in Threads : th[u].pc = "sleeping"
       THEN \E u \in Threads :
               /\ th[u].pc = "sleeping"
               /\ th' = [th EXCEPT ![u].pc = "relock"]
       ELSE th' = th
    /\ UNCHANGED << running, mFirmwares, mDataLock, mCompletionLock, config, embedded,
                    calls, arrays, loads, stores, panicked, parseVars,
                    inflateVars >>

\* line 399: the woken thread takes the lock again before IOLockSleep returns
Relock(t) ==
    /\ Alive
    /\ th[t].pc = "relock"
    /\ mCompletionLock = Free
    /\ mCompletionLock' = ThreadOwner(t)
    /\ th' = [th EXCEPT ![t].pc = "fileDone"]
    /\ UNCHANGED << running, mFirmwares, mDataLock, cb, config, embedded, calls,
                    arrays, loads, stores, panicked, dangling, parseVars,
                    inflateVars >>

\* lines 401-409 and 417-428: unlock, return context.firmware; without data
\* the next file is tried, after the fourth loadFirmwareFiles returns NULL
FileDone(t) ==
    /\ Alive
    /\ th[t].pc = "fileDone"
    /\ mCompletionLock' = Free
    /\ th' = [th EXCEPT ![t].contextLive = FALSE,
                        ![t].configuredData = th[t].context,
                        ![t].pc = IF ~th[t].context.null THEN "decompress"
                                  ELSE IF th[t].file < 4 THEN "requestFile"
                                  ELSE "findData",
                        ![t].file = IF th[t].context.null /\ th[t].file < 4
                                    THEN th[t].file + 1 ELSE th[t].file]
    /\ UNCHANGED << running, mFirmwares, mDataLock, cb, config, embedded, calls,
                    arrays, loads, stores, panicked, dangling, parseVars,
                    inflateVars >>

\* lines 438-481: the compiled-in firmware, then the "Firmwares" property
FindData(t) ==
    /\ Alive
    /\ th[t].pc = "findData"
    /\ LET key == th[t].key
           zhx == embedded[key].zhx
           hex == embedded[key].hex
           found == IF ~zhx.null THEN zhx
                    ELSE IF ~hex.null THEN hex
                    ELSE IF ~config.present THEN NullData
                    ELSE config.firmwares[key]
           seen == IF ~zhx.null THEN << "embedded.zhx" >>
                   ELSE IF ~hex.null THEN << "embedded.zhx", "embedded.hex" >>
                   ELSE << "embedded.zhx", "embedded.hex", "config" >>
       IN th' = [th EXCEPT ![t].configuredData = found,
                           ![t].consulted = @ \o seen,
                           ![t].instructions = NullList,
                           ![t].pc = IF found.null THEN "loaded" ELSE "decompress"]
    /\ UNCHANGED << running, mFirmwares, mDataLock, mCompletionLock, cb, config,
                    embedded, calls, arrays, loads, stores, panicked, dangling, parseVars,
                    inflateVars >>

\* lines 483-497: a fault of decompressFirmware in the kernel stops the system
Decompress(t) ==
    /\ Alive
    /\ th[t].pc = "decompress"
    /\ \E z \in decompressFirmware(th[t].configuredData) :
          /\ panicked' = (panicked \/ z.pc = "fault")
          /\ th' = [th EXCEPT ![t].firmwareData = z.result,
                              ![t].configuredData = NullData,
                              ![t].instructions = NullList,
                              ![t].pc = IF z.pc = "fault" THEN "fault"
                                        ELSE IF z.result.null THEN "loaded"
                                        ELSE "parse"]
    /\ UNCHANGED << running, mFirmwares, mDataLock, mCompletionLock, cb, config,
                    embedded, calls, arrays, loads, stores, dangling, parseVars,
                    inflateVars >>

\* lines 499-510: parseFirmware on the decompressed data; a fault of the
\* parser in the kernel stops the system
Parse(t) ==
    /\ Alive
    /\ th[t].pc = "parse"
    /\ \E r \in ParseResults(th[t].firmwareData.bytes) :
          /\ panicked' = (r.kind = "fault")
          /\ arrays' = IF r.kind = "list" THEN arrays + 1 ELSE arrays
          /\ th' = [th EXCEPT ![t].firmwareData = NullData,
                              ![t].instructions =
                                  IF r.kind = "list" THEN List(arrays + 1, r.instructions)
                                  ELSE NullList,
                              ![t].pc = IF r.kind = "fault" THEN "fault" ELSE "loaded"]
    /\ UNCHANGED << running, mFirmwares, mDataLock, mCompletionLock, cb, config,
                    embedded, calls, loads, stores, dangling, parseVars,
                    inflateVars >>

\* lines 530-537: loadFirmware has returned; a list is added to the cache
Store(t) ==
    /\ Alive
    /\ th[t].pc = "loaded"
    /\ mFirmwares' = StoreResult(th[t].key, th[t].instructions)
    /\ stores' = IF mFirmwares' # mFirmwares
                 THEN [stores EXCEPT ![th[t].key] = @ + 1] ELSE stores
    /\ th' = [th EXCEPT ![t].pc = "unlockData"]
    /\ UNCHANGED << running, mDataLock, mCompletionLock, cb, config, embedded, calls,
                    arrays, loads, panicked, dangling, parseVars,
                    inflateVars >>

\* lines 542-544
UnlockData(t) ==
    /\ Alive
    /\ th[t].pc = "unlockData"
    /\ mDataLock' = Free
    /\ th' = [th EXCEPT ![t] = [ThreadIdle EXCEPT !.key = th[t].key,
                                                  !.ret = th[t].instructions]]
    /\ UNCHANGED << running, mFirmwares, mCompletionLock, cb, config, embedded, calls,
                    arrays, loads, stores, panicked, dangling, parseVars,
                    inflateVars >>

\* lines 332-351: stop(), once no call is in progress: the cache is released
Stop ==
    /\ Alive
    /\ \A t \in Threads : th[t].pc = "idle" /\ cb[t] = "none"
    /\ running' = FALSE
    /\ mFirmwares' = [k \in Keys |-> NullList]
    /\ UNCHANGED << mDataLock, mCompletionLock, th, cb, config, embedded, calls,
                    arrays, loads, stores, panicked, dangling, parseVars,
                    inflateVars >>

Next ==
    \/ \E t \in Threads : \E k \in Keys \cup { "" } : Call(t, k)
    \/ \E t \in Threads : LockData(t)
    \/ \E t \in Threads : RequestFile(t)
    \/ \E t \in Threads : Sleep(t)
    \/ \E t \in Threads : CallbackLock(t)
    \/ \E t \in Threads : \E outcome \in FileOutcomes : CallbackStore(t, outcome)
    \/ \E t \in Threads : CallbackWakeup(t)
    \/ \E t \in Threads : Relock(t)
    \/ \E t \in Threads : FileDone(t)
    \/ \E t \in Threads : FindData(t)
    \/ \E t \in Threads : Decompress(t)
    \/ \E t \in Threads : Parse(t)
    \/ \E t \in Threads : Store(t)
    \/ \E t \in Threads : UnlockData(t)
    \/ Stop

Spec == Init /\ [][Next]_vars

(***************************************************************************)
(* The cache contract.                                                     *)
(***************************************************************************)
\* thread t is inside getFirmware with mDataLock held
InCall(t) == mDataLock = ThreadOwner(t)

\* the step is thread t leaving the program point pc
Leaves(t, pc) == th[t].pc = pc /\ th'[t].pc # pc

(* C8: for every key at most one load ever populates the cache; once the
   key is cached no step calls loadFirmware for it again, a call that finds
   it takes the stored list itself (no file is requested, nothing is
   decompressed or parsed), and the list a call has returned for a key is
   the list the cache holds for it as long as the service runs. *)
C8_OneLoadPerKey ==
    /\ [](\A k \in Keys : stores[k] <= 1)
    /\ [](\A t \in Threads :
            (running /\ th[t].pc = "idle" /\ ~th[t].ret.null) =>
                th[t].ret = mFirmwares[th[t].key])
    /\ [][\A k \in Keys : ~mFirmwares[k].null => loads'[k] = loads[k]]_vars
    /\ [][\A t \in Threads :
            (Leaves(t, "lockData") /\ ~mFirmwares[th[t].key].null) =>
                /\ th'[t].pc = "unlockData"
                /\ th'[t].instructions = mFirmwares[th[t].key]
                /\ arrays' = arrays
                /\ mFirmwares' = mFirmwares]_vars

\* thread 1 has loaded k1 and returned its list; thread 2, calling for k1
\* afterwards, holds the lock with that same list and no second load ran
C8_Witness ==
    /\ th[1].pc = "idle" /\ th[1].key = "k1" /\ ~th[1].ret.null
    /\ Len(th[1].ret.instructions) = 1
    /\ th[2].pc = "unlockData" /\ th[2].key = "k1"
    /\ InCall(2)
    /\ th[2].instructions = th[1].ret
    /\ mFirmwares["k1"] = th[1].ret
    /\ loads["k1"] = 1
    /\ stores["k1"] = 1

(* C9: a call whose load returns no list leaves the cache as it found it,
   with no entry for its key, and returns NULL; and every call that finds
   no entry for its key enters loadFirmware and starts with the first
   file, whatever failed before. *)
C9_FailuresNotCached ==
    /\ [][\A t \in Threads :
            (InCall(t) /\ (th[t].pc # "loaded" \/ th[t].instructions.null)) =>
                mFirmwares' = mFirmwares]_vars
    /\ [][\A t \in Threads :
            (Leaves(t, "unlockData") /\ th[t].instructions.null) =>
                /\ th'[t].pc = "idle"
                /\ th'[t].ret.null
                /\ mFirmwares'[th[t].key].null]_vars
    /\ [][\A t \in Threads :
            (Leaves(t, "lockData") /\ mFirmwares[th[t].key].null) =>
                /\ th'[t].pc = "requestFile"
                /\ th'[t].file = 1
                /\ loads'[th[t].key] = loads[th[t].key] + 1]_vars

\* thread 2 has returned NULL for k1 after a load that found no list;
\* thread 1, calling for k1 afterwards, is in the second load of k1
C9_Witness ==
    /\ th[2].pc = "idle" /\ th[2].key = "k1" /\ th[2].ret.null
    /\ th[1].pc = "requestFile" /\ th[1].key = "k1" /\ th[1].file = 1
    /\ InCall(1)
    /\ mFirmwares = [k \in Keys |-> NullList]
    /\ loads["k1"] = 2
    /\ stores["k1"] = 0

(* C10: while the service runs a cache entry changes only by being created,
   from no entry to the list a load for that very key has just returned;
   an existing entry stays the same list, and a step of a call for one key
   leaves the entries of all other keys alone. *)
C10_EntriesStable ==
    /\ [][running' =>
            \A k \in Keys :
                /\ ~mFirmwares[k].null => mFirmwares'[k] = mFirmwares[k]
                /\ mFirmwares'[k] # mFirmwares[k] =>
                      \E t \in Threads :
                          /\ Leaves(t, "loaded")
                          /\ th[t].key = k
                          /\ ~th[t].instructions.null
                          /\ mFirmwares'[k] = th[t].instructions]_vars
    /\ [][\A t \in Threads :
            (th'[t] # th[t] /\ th[t].pc # "idle") =>
                \A k \in Keys \ { th[t].key } : mFirmwares'[k] = mFirmwares[k]]_vars

\* k1 is cached and its caller has returned; a later call has just stored
\* a different list for k2 and the entry of k1 is still the returned list
C10_Witness ==
    /\ running
    /\ th[1].pc = "idle" /\ th[1].key = "k1" /\ ~th[1].ret.null
    /\ mFirmwares["k1"] = th[1].ret
    /\ th[2].pc = "unlockData" /\ th[2].key = "k2"
    /\ ~mFirmwares["k2"].null
    /\ mFirmwares["k2"].id > mFirmwares["k1"].id
    /\ stores = [k \in Keys |-> 1]

(***************************************************************************)
(* The loader chain.                                                       *)
(***************************************************************************)
\* the blob decompresses and its image parses to a list without a read
\* outside the image
SourceGood(blob) ==
    /\ ~blob.null
    /\ \E z \in decompressFirmware(blob) :
          /\ z.pc = "done"
          /\ ~z.result.null
          /\ \E p \in parseFirmware(z.result.bytes) :
                p.pc = "done" /\ p.ret = "list" /\ ~p.tailKnown

\* the sources after the disk files that hold a usable firmware for key k
LaterSources(k) ==
    { embedded[k].zhx, embedded[k].hex } \cup
    (IF config.present THEN { config.firmwares[k] } ELSE { })

(* C11: a load that ends without instructions has found no usable source:
   when the blob of the source it took fails to decompress or to parse, the
   load goes on to the sources after it, and it returns NULL only when none
   of them yields a list. *)
C11_FallsThrough ==
    \A t \in Threads :
        (th[t].pc = "loaded" /\ th[t].instructions.null) =>
            \A blob \in LaterSources(th[t].key) : ~SourceGood(blob)

(***************************************************************************)
(* decompressFirmware on its own: the buffers it is given and its steps.   *)
(***************************************************************************)
Payloads == { << >>, << 7 >>, << 58, 48 >>, HexEmpty, HexGood }

\* the stream z with the second header byte f (01, 9c or da)
WithFlag(z, f) == [z EXCEPT ![2] = f]

ZStreams == { WithFlag(ZlibStored(p), f) : p \in Payloads, f \in { 1, 156, 218 } }

\* z cut short: after the header, inside the block header, before the
\* bytes, inside or before the check value
Cuts(z) == { SubSeq(z, 1, k) : k \in { 2, 5, 7, Len(z) - 4, Len(z) - 1 } }

\* z with a wrong check value, and with a wrong complement of the length
Damaged(z) == { [z EXCEPT ![Len(z)] = (@ + 1) % 256], [z EXCEPT ![6] = (@ + 1) % 256] }

PlainBuffers ==
    { << >>, << 120 >>, << 58 >>, << 58, 48 >>, << 120, 2 >>, << 1, 120 >>,
      << 156, 120, 1 >>, HexEmpty, HexGood, HexBad }

DecompressInputs ==
    PlainBuffers \cup ZStreams \cup UNION { Cuts(z) \cup Damaged(z) : z \in ZStreams }

DecompressSpecInit ==
    /\ recs = << >>
    /\ layout = NormalLayout
    /\ image = << >>
    /\ parse = ParseInit
    /\ Started
    /\ config = NoConfig
    /\ embedded = NoEmbedded
    /\ input \in { Data(b) : b \in DecompressInputs }
    /\ dz = DecompressInit(input)
    /\ load = LoadIdle

Magic ==
    /\ dz.pc = "magic"
    /\ dz' \in DecompressStep(dz)
    /\ UNCHANGED << input, load, parseVars, cacheVars >>

Alloc ==
    /\ dz.pc = "alloc"
    /\ dz' \in DecompressStep(dz)
    /\ UNCHANGED << input, load, parseVars, cacheVars >>

InflateInit ==
    /\ dz.pc = "init"
    /\ dz' \in DecompressStep(dz)
    /\ UNCHANGED << input, load, parseVars, cacheVars >>

InflateFinish ==
    /\ dz.pc = "inflate"
    /\ dz' \in DecompressStep(dz)
    /\ UNCHANGED << input, load, parseVars, cacheVars >>

InflateEnd ==
    /\ dz.pc = "end"
    /\ dz' \in DecompressStep(dz)
    /\ UNCHANGED << input, load, parseVars, cacheVars >>

DecompressNext == Magic \/ Alloc \/ InflateInit \/ InflateFinish \/ InflateEnd

DecompressSpec == DecompressSpecInit /\ [][DecompressNext]_vars

\* the buffer holds the two bytes the magic test reads
HasMagic == Len(input.bytes) >= 2

\* the bytes of the stored block of a complete stream
StoredBytes(z) == SubSeq(z, 8, Len(z) - 4)

(* C12: when decompressFirmware returns a buffer for an input that starts
   with one of the three magics, inflate has answered Z_STREAM_END and the
   buffer holds the whole inflated image; after any other answer of
   inflate the call returns no buffer. *)
C12_InflateComplete ==
    (dz.pc = "done" /\ HasMagic /\ IsCompressed(input.bytes)) =>
        /\ ~dz.result.null =>
              /\ dz.status = << Z_STREAM_END >>
              /\ dz.result.bytes = StoredBytes(input.bytes)
        /\ dz.status \notin { << >>, << Z_STREAM_END >> } => dz.result.null

(* C13: for a buffer whose first two bytes are none of the three magics the
   call returns the buffer it was given, retained once, without a scratch
   allocation, an inflateInit or a copy. *)
C13_PassThrough ==
    (HasMagic /\ ~IsCompressed(input.bytes) /\ dz.pc # "magic") =>
        /\ dz.pc = "done"
        /\ dz.same
        /\ dz.result = input
        /\ dz.retains = 1
        /\ dz.allocs = 0
        /\ dz.inits = 0
        /\ dz.copies = 0

\* a hex image, and a buffer whose two bytes are a magic in the other order
C13_Witness ==
    /\ dz.pc = "done"
    /\ input.bytes \in { HexGood, << 1, 120 >> }
    /\ dz.same
    /\ dz.retains = 1

(***************************************************************************)
(* The first byte and the bounds of the reads of parseFirmware.            *)
(***************************************************************************)
\* space, tab, line feed, carriage return
IsSpace(c) == c \in { 32, 9, 10, 13 }

\* the index of the first byte of the image that is no white space, or 0
FirstVisible(bytes) ==
    LET at == { i \in 1..Len(bytes) : ~IsSpace(bytes[i]) }
    IN IF at = { } THEN 0 ELSE Min(at)

\* the call ended at the test of the first byte
FailedAtFirstByte ==
    /\ parse.pc = "done"
    /\ parse.ret = "NULL"
    /\ parse.line = 0
    /\ parse.log = "Invalid firmware data."

(* C14: once the first byte has been tested, an image whose first byte that
   is no white space is ':' has not failed that test, white space before
   the ':' or not; an image whose first such byte is anything else has
   ended there with no list and no record decoded. *)
C14_FirstNonWhitespace ==
    (parse.pc # "begin" /\ FirstVisible(image) > 0) =>
        IF image[FirstVisible(image)] = HEX_LINE_PREFIX
        THEN ~FailedAtFirstByte
        ELSE parse.pc = "done" /\ parse.ret = "NULL" /\ parse.line = 0

(***************************************************************************)
(* The handoff between loadFirmwareFile and requestResourceCallback.       *)
(***************************************************************************)
\* the callback of the request of thread t has not finished
CallbackRunning(t) == cb[t] # "none"

(* C15: loadFirmwareFile goes on after IOLockSleep only when the callback
   of its request has finished; until then the caller stays in the call with
   its context alive and the callback never touches a context whose owner
   has returned.  The result slot is written only by the callback, holding
   mCompletionLock, while the caller sleeps, and what loadFirmwareFile
   returns is the content of the slot. *)
C15_Handoff ==
    /\ [](~dangling)
    /\ [](\A t \in Threads :
            /\ CallbackRunning(t) => th[t].pc \in { "sleep", "sleeping" } /\ th[t].contextLive
            /\ th[t].pc \in { "relock", "fileDone" } => ~CallbackRunning(t))
    /\ [][\A t \in Threads :
            (th'[t].context # th[t].context /\ ~th'[t].context.null) =>
                /\ cb[t] = "locked" /\ cb'[t] = "unlocked"
                /\ mCompletionLock = CallbackOwner(t)
                /\ th[t].pc = "sleeping"
                /\ th[t].context.null]_vars
    /\ [][\A t \in Threads :
            Leaves(t, "fileDone") =>
                /\ th'[t].configuredData = th[t].context
                /\ mCompletionLock = ThreadOwner(t)
                /\ mCompletionLock' = Free]_vars

\* the caller is back from IOLockSleep, holds the lock again and finds the
\* compressed file its callback has stored
C15_Witness ==
    /\ th[1].pc = "fileDone"
    /\ th[1].context = Data(ZStored)
    /\ cb[1] = "none"
    /\ mCompletionLock = ThreadOwner(1)
    /\ th[1].file = 3

(***************************************************************************)
(* Calls that overlap.                                                     *)
(***************************************************************************)
\* thread t is executing loadFirmware (fetch, decompress or parse)
Loading(t) ==
    th[t].pc \in { "requestFile", "sleep", "sleeping", "relock", "fileDone",
                   "findData", "decompress", "parse" }

\* thread t has called getFirmware for the key thread u is loading and has not
\* looked the key up yet
Overlaps(t, u) ==
    /\ t # u
    /\ Loading(u)
    /\ th[t].pc = "lockData"
    /\ th[t].key = th[u].key

(* C16, as the spec states it: a call that overlaps a load of the same
   uncached key can itself go on into loadFirmware while that load runs. *)
C16_ConcurrentMisses ==
    \A t, u \in Threads : Overlaps(t, u) => ENABLED LockData(t)

(* C16, as the code has it: mDataLock is held across loadFirmware, so at
   most one thread executes loadFirmware at any time, and a call that
   overlaps a load cannot pass the lock before the load has returned. *)
C16_MissesSerialised ==
    /\ \A t, u \in Threads : (Loading(t) /\ Loading(u)) => t = u
    /\ \A t \in Threads : Loading(t) => mDataLock = ThreadOwner(t)
    /\ \A t, u \in Threads : Overlaps(t, u) => ~ENABLED LockData(t)

\* thread 1 is parsing the firmware of k1 while thread 2 has called for k1
C16_Witness ==
    /\ th[1].pc = "parse"
    /\ th[1].key = "k1"
    /\ Overlaps(2, 1)
    /\ mFirmwares["k1"].null

(***************************************************************************)
(* Progress.                                                               *)
(***************************************************************************)
\* thread t is inside getFirmware
InGetFirmware(t) == th[t].pc # "idle"

\* thread t, inside getFirmware, can take its next step: the lock it needs is
\* free, or it needs none
ThreadCanStep(t) ==
    \/ ENABLED LockData(t)
    \/ ENABLED RequestFile(t)
    \/ ENABLED Sleep(t)
    \/ ENABLED Relock(t)
    \/ ENABLED FileDone(t)
    \/ ENABLED FindData(t)
    \/ Alive /\ th[t].pc \in { "decompress", "parse" }
    \/ ENABLED Store(t)
    \/ ENABLED UnlockData(t)

\* the callback of the request of thread t can take its next step
CallbackCanStep(t) ==
    \/ ENABLED CallbackLock(t)
    \/ Alive /\ cb[t] = "locked"
    \/ ENABLED CallbackWakeup(t)

\* a thread that is not waiting for a lock or a wakeup is running
Waiting(t) ==
    \/ th[t].pc = "lockData" /\ mDataLock # Free
    \/ th[t].pc \in { "requestFile", "relock" } /\ mCompletionLock # Free
    \/ th[t].pc = "sleeping"

(* C17: a call of getFirmware that is under way never stops for good: in
   every reachable state with a call under way some thread or callback can
   take a step, every thread that waits waits for a lock another thread or a
   callback holds and will release, or for the wakeup of a callback that is
   still to run; the callback issues its wakeup only when the requester
   sleeps; a thread holds mCompletionLock only while it holds mDataLock; and
   a thread that has returned holds neither lock. *)
C17_Progress ==
    /\ (\E t \in Threads : InGetFirmware(t)) =>
          \E t \in Threads : ThreadCanStep(t) \/ CallbackCanStep(t)
    /\ \A t \in Threads :
          (InGetFirmware(t) /\ ~Waiting(t)) => ThreadCanStep(t)
    /\ \A t \in Threads :
          th[t].pc = "sleeping" => CallbackRunning(t)
    /\ \A t \in Threads : cb[t] = "unlocked" => th[t].pc = "sleeping"
    /\ \A t \in Threads :
          mCompletionLock = ThreadOwner(t) => mDataLock = ThreadOwner(t)
    /\ \A t \in Threads :
          th[t].pc = "idle" =>
             mDataLock # ThreadOwner(t) /\ mCompletionLock # ThreadOwner(t)

(***************************************************************************)
(* loadFirmware on its own, from the source found to the return: the       *)
(* references it holds on the source blob and on the decompressed image,   *)
(* with decompressFirmware and parseFirmware run step by step.             *)
(***************************************************************************)
\* where the blob comes from and the references on it before the call: a
\* file (the OSData the callback made, line 363) and the compiled-in table
\* hand over a new object, the property dictionary keeps its own reference
Origins ==
    { LoadInit("file", 0), LoadInit("embedded", 0), LoadInit("config", 1),
      LoadInit("none", 0) }

LoadSpecInit ==
    /\ recs = << >>
    /\ layout = NormalLayout
    /\ image = << >>
    /\ parse = [ParseInit EXCEPT !.pc = "idle"]
    /\ Started
    /\ config = NoConfig
    /\ embedded = NoEmbedded
    /\ input \in { Data(b) : b \in DecompressInputs }
    /\ dz = [DecompressInit(NullData) EXCEPT !.pc = "idle"]
    /\ load \in Origins

\* lines 436-481: without a source NULL is returned; the new object of a
\* file or of the table comes with one reference, the object of the
\* dictionary is retained (line 472); line 483 enters decompressFirmware
LoadSource ==
    /\ load.pc = "source"
    /\ IF load.origin = "none"
       THEN /\ load' = [load EXCEPT !.pc = "returned", !.ret = "NULL"]
            /\ dz' = dz
       ELSE /\ load' = [load EXCEPT !.pc = "decompress", !.acquired = 1]
            /\ dz' = DecompressInit(input)
    /\ UNCHANGED << input, parseVars, cacheVars >>

LoadDecompressedNoRelease(l) ==
    [l EXCEPT !.pc = "returned", !.ret = "NULL"]

\* lines 485-490: decompressFirmware returned NULL
LoadDecompressedNull(l) ==
    [l EXCEPT !.pc = "returned", !.ret = "NULL", !.blobReleases = @ + 1]

\* lines 485-499: decompressFirmware has returned; configuredData is
\* released, and parseFirmware entered with firmwareData
LoadDecompressed ==
    /\ load.pc = "decompress"
    /\ dz.pc = "done"
    /\ IF dz.result.null
       THEN /\ load' = LoadDecompressedNull(load)
            /\ UNCHANGED << image, parse >>
       ELSE /\ load' = [load EXCEPT !.pc = "parse", !.blobReleases = @ + 1]
            /\ image' = dz.result.bytes
            /\ parse' = ParseInit
    /\ UNCHANGED << recs, layout, input, dz, cacheVars >>

\* lines 499-510: parseFirmware has returned; firmwareData is released and
\* the list, or NULL, returned
LoadParsed ==
    /\ load.pc = "parse"
    /\ parse.pc = "done"
    /\ load' = [load EXCEPT !.pc = "returned", !.ret = parse.ret,
                            !.imageReleases = @ + 1]
    /\ UNCHANGED << input, dz, parseVars, cacheVars >>

LoadNext ==
    \/ LoadSource
    \/ Magic
    \/ Alloc
    \/ InflateInit
    \/ InflateFinish
    \/ InflateEnd
    \/ LoadDecompressed
    \/ Begin
    \/ While
    \/ Decode
    \/ Dispatch
    \/ Skip
    \/ LoadParsed

LoadSpec == LoadSpecInit /\ [][LoadNext]_vars

\* the reference count of the source blob: the references held before the
\* call, the one the call was given or took, the retain of the pass-through,
\* less the releases of configuredData and, when firmwareData is the same
\* object, of firmwareData
BlobRefs ==
    load.before + load.acquired + dz.retains - load.blobReleases
        - (IF dz.same THEN load.imageReleases ELSE 0)

\* the reference count of the decompressed image, when it is an object of
\* its own
ImageRefs == dz.copies - load.imageReleases

\* loadFirmware uses configuredData up to line 497 and firmwareData from
\* line 499 to line 500
BlobInUse == load.pc = "decompress" \/ (load.pc = "parse" /\ dz.same)
ImageInUse == load.pc = "parse" /\ ~dz.same

(* C18: when loadFirmware returns, with a list or with NULL, the scratch
   buffer has been freed as often as it was allocated, inflateEnd has run as
   often as inflateInit succeeded, the source blob is back at the reference
   count it had before the call, the decompressed image, when it is an object
   of its own, has no reference left, and after a failed parse the list and
   its instructions have none; during the call no buffer is freed twice, no
   reference count goes below zero and every object in use has a reference. *)
C18_ResourceBalance ==
    /\ load.pc = "returned" =>
          /\ dz.allocs = dz.frees
          /\ dz.inits = dz.ends
          /\ dz.buffer \in { "none", "freed" }
          /\ dz.zstream \in { "none", "ended" }
          /\ BlobRefs = load.before
          /\ ~dz.same => ImageRefs = 0
          /\ load.ret = "NULL" =>
                /\ parse.arrayRefs = 0
                /\ \A i \in DOMAIN parse.instrRefs : parse.instrRefs[i] = 0
    /\ load.pc # "idle" =>
          /\ dz.frees <= dz.allocs
          /\ dz.ends <= dz.inits
          /\ BlobRefs >= load.before
          /\ ImageRefs >= 0 \/ dz.same
          /\ BlobInUse => BlobRefs >= 1
          /\ ImageInUse => ImageRefs >= 1

\* a pass-through blob of the dictionary whose parse failed after a Data
\* record had been stored
C18_Witness ==
    /\ load.pc = "returned"
    /\ load.origin = "config"
    /\ dz.same
    /\ load.ret = "NULL"
    /\ Len(parse.instructions) >= 1
    /\ load.blobReleases = 1
    /\ load.imageReleases = 1

(***************************************************************************)
(* The order of the sources of a load.                                     *)
(***************************************************************************)
LoaderOrder ==
    << "vendor_product.zhx", "vendor_product.hex", "key.zhx", "key.hex",
       "embedded.zhx", "embedded.hex", "config" >>

\* what the source `name` gave the load of thread t: the file the callback
\* delivered, the compiled-in blob, the entry of the "Firmwares" property
SourceData(t, name) ==
    CASE name = "embedded.zhx" -> embedded[th[t].key].zhx
      [] name = "embedded.hex" -> embedded[th[t].key].hex
      [] name = "config" -> IF config.present THEN config.firmwares[th[t].key]
                            ELSE NullData
      [] OTHER -> th[t].context

(* C19: the sources a load has consulted are an initial stretch of the order
   vendor_product.zhx, vendor_product.hex, key.zhx, key.hex, compiled-in zhx,
   compiled-in hex, configuration; a further source is consulted only while
   no source has produced data; the buffer handed to decompressFirmware is
   the data of the source consulted last, and the buffer handed to
   parseFirmware is what decompressFirmware makes of that data; once a source
   has produced data no other source is consulted in that load. *)
C19_FallbackOrder ==
    /\ [](\A t \in Threads :
            LET c == th[t].consulted
            IN /\ Len(c) <= Len(LoaderOrder)
               /\ c = SubSeq(LoaderOrder, 1, Len(c))
               /\ \A i \in 5..(Len(c) - 1) : SourceData(t, c[i]).null
               /\ th[t].pc = "decompress" =>
                     /\ c # << >>
                     /\ ~th[t].configuredData.null
                     /\ th[t].configuredData = SourceData(t, c[Len(c)])
               /\ th[t].pc = "parse" =>
                     /\ c # << >>
                     /\ \E z \in decompressFirmware(SourceData(t, c[Len(c)])) :
                           z.pc = "done" /\ z.result = th[t].firmwareData)
    /\ [][\A t \in Threads :
            /\ (th'[t].consulted # th[t].consulted /\ th'[t].consulted # << >>) =>
                  /\ th[t].pc \in { "requestFile", "findData" }
                  /\ th[t].context.null
                  /\ th[t].configuredData.null
                  /\ Len(th'[t].consulted) > Len(th[t].consulted)
            /\ th[t].pc \in { "decompress", "parse" } =>
                  th'[t].pc \in { th[t].pc, "parse", "loaded", "fault" }]_vars

\* the configuration entry is parsed after the six sources before it gave
\* nothing
C19_Witness ==
    \E t \in Threads :
        /\ th[t].pc = "parse"
        /\ th[t].consulted = LoaderOrder
        /\ th[t].firmwareData.bytes = HexGood

(***************************************************************************)
(* The bounds of the reads of parseFirmware.                               *)
(***************************************************************************)
(* C20: every byte parseFirmware reads of an image of two bytes or more
   lies inside the image: no call reads the memory after the image, none
   faults on a read outside it, and the read position of the decoding loop
   and of the skipping loop never passes the end of the image. *)
C20_ReadsInBounds ==
    Len(image) >= 2 =>
        /\ ~parse.tailKnown
        /\ ~(parse.pc = "fault" /\ parse.fault = "read")
        /\ parse.data <= Len(image)

====
